---- MODULE Spec2Model ----
(***************************************************************************)
(* basicos (src/main.rs): the VGA text-mode Writer, the serial Diagnostic  *)
(* Channel, the QEMU exit port, the custom test runner and the panic       *)
(* handler, as one single-threaded state machine.                          *)
(***************************************************************************)
EXTENDS Integers, Sequences, FiniteSets, TLC

VARIABLES
    WRITER,         \* vga_buffer::WRITER: the Writer behind the Mutex
    WRITER_locked,  \* whether a MutexGuard of WRITER is alive
    SERIAL1_ready,  \* port_io::SERIAL1: whether the lazy_static has been built
    SERIAL1_locked, \* whether a MutexGuard of SERIAL1 is alive
    serial_inits,   \* how many times SerialPort::init has run on the device
    serial,         \* the write_str chunks transmitted on the serial port, in order
    port,           \* the u32 values written to I/O port 0xf4, in order
    pc,             \* where the single execution context is
    info,           \* the PanicInfo message of the panic being handled ("" if none)
    tests,          \* the declared test procedures (the slice given to test_runner)
    idx,            \* test_runner's loop position: tests[1..idx] have returned
    step,           \* the next statement of the running test's body
    calls,          \* number of Writer calls made by the caller of WriterSpec
    last            \* the last Writer call: its operation, argument and the Writer before it

vars == <<WRITER, WRITER_locked, SERIAL1_ready, SERIAL1_locked, serial_inits,
          serial, port, pc, info, tests, idx, step, calls, last>>

----------------------------------------------------------------------------
(* Bounds of the model *)

MaxCalls == 3

MaxTests == 3

----------------------------------------------------------------------------
(* vga_buffer *)

BUFFER_HEIGHT == 25

BUFFER_WIDTH == 80

LF == 10

PLACEHOLDER == 254

Black == 0

White == 15

Bytes == 0..255

\* ColorCode::new: (background as u8) << 4 | (foreground as u8), on u8.
\* The low nibble of (background << 4) is zero, so the OR is an addition
\* for every foreground below 16 (all Color discriminants are).
ColorCode_new(foreground, background) ==
    ((background * 16) % 256) + foreground

ScreenChar(byte, color_code) ==
    [ascii_character |-> byte, color_code |-> color_code]

\* Buffer.chars keeps the cells the program has stored, keyed <<row, col>>;
\* a cell outside DOMAIN chars still holds what the display hardware held.
NoChars == [p \in {} |-> ScreenChar(0, 0)]

InGrid(row, col) ==
    /\ row >= 0 /\ row < BUFFER_HEIGHT
    /\ col >= 0 /\ col < BUFFER_WIDTH

Store(chars, row, col, cell) ==
    (<<row, col>> :> cell) @@ chars

\* lazy_static WRITER: the Writer at its first use
WRITER_init ==
    [column_position |-> 0,
     row_position    |-> 0,
     color_code      |-> ColorCode_new(White, Black),
     chars           |-> NoChars]

\* A Writer method's outcome: the Writer it leaves, and whether it panicked
\* (the bounds-checked index self.buffer.chars[row][col] out of range).
Outcome(w, panicked) == [writer |-> w, panic |-> panicked]

\* new_line that forgets to reset the column
new_line_keeps_column(w) ==
    [w EXCEPT !.row_position = @ + 1]

new_line(w) ==
    [w EXCEPT !.row_position = @ + 1, !.column_position = 0]

\* write_byte doing write_string's substitution itself
write_byte_substitutes(w, byte) ==
    IF byte = LF
    THEN Outcome(new_line(w), FALSE)
    ELSE LET w1  == IF w.column_position >= BUFFER_WIDTH THEN new_line(w) ELSE w
             row == w1.row_position
             col == w1.column_position
             b   == IF byte >= 32 /\ byte <= 126 THEN byte ELSE PLACEHOLDER
         IN  IF ~InGrid(row, col)
             THEN Outcome(w1, TRUE)
             ELSE Outcome([w1 EXCEPT
                             !.chars = Store(@, row, col, ScreenChar(b, w1.color_code)),
                             !.column_position = @ + 1],
                          FALSE)

\* write_byte that stores but does not advance the column
write_byte_no_advance(w, byte) ==
    IF byte = LF
    THEN Outcome(new_line(w), FALSE)
    ELSE LET w1  == IF w.column_position >= BUFFER_WIDTH THEN new_line(w) ELSE w
             row == w1.row_position
             col == w1.column_position
         IN  IF ~InGrid(row, col)
             THEN Outcome(w1, TRUE)
             ELSE Outcome([w1 EXCEPT
                             !.chars = Store(@, row, col, ScreenChar(byte, w1.color_code))],
                          FALSE)

\* write_byte that overwrites the last column instead of wrapping
write_byte_no_wrap(w, byte) ==
    IF byte = LF
    THEN Outcome(new_line(w), FALSE)
    ELSE LET row == w.row_position
             col == IF w.column_position >= BUFFER_WIDTH
                    THEN BUFFER_WIDTH - 1 ELSE w.column_position
         IN  IF ~InGrid(row, col)
             THEN Outcome(w, TRUE)
             ELSE Outcome([w EXCEPT
                             !.chars = Store(@, row, col, ScreenChar(byte, w.color_code)),
                             !.column_position = col + 1],
                          FALSE)

\* write_byte whose wrap test is > instead of >=
write_byte_wraps_late(w, byte) ==
    IF byte = LF
    THEN Outcome(new_line(w), FALSE)
    ELSE LET w1  == IF w.column_position > BUFFER_WIDTH THEN new_line(w) ELSE w
             row == w1.row_position
             col == w1.column_position
         IN  IF ~InGrid(row, col)
             THEN Outcome(w1, TRUE)
             ELSE Outcome([w1 EXCEPT
                             !.chars = Store(@, row, col, ScreenChar(byte, w1.color_code)),
                             !.column_position = @ + 1],
                          FALSE)

\* write_byte storing through an index that is not bounds-checked
write_byte_unchecked(w, byte) ==
    IF byte = LF
    THEN Outcome(new_line(w), FALSE)
    ELSE LET w1  == IF w.column_position >= BUFFER_WIDTH THEN new_line(w) ELSE w
             row == w1.row_position
             col == w1.column_position
         IN  Outcome([w1 EXCEPT
                         !.chars = Store(@, row, col, ScreenChar(byte, w1.color_code)),
                         !.column_position = @ + 1],
                     FALSE)

write_byte(w, byte) ==
    IF byte = LF
    THEN Outcome(new_line(w), FALSE)
    ELSE LET w1  == IF w.column_position >= BUFFER_WIDTH THEN new_line(w) ELSE w
             row == w1.row_position
             col == w1.column_position
         IN  IF ~InGrid(row, col)
             THEN Outcome(w1, TRUE)
             ELSE Outcome([w1 EXCEPT
                             !.chars = Store(@, row, col, ScreenChar(byte, w1.color_code)),
                             !.column_position = @ + 1],
                          FALSE)

IsPrintable(byte) == byte >= 32 /\ byte <= 126

\* the match of write_string's loop body
Filter(byte) ==
    IF IsPrintable(byte) \/ byte = LF THEN byte ELSE PLACEHOLDER

\* the loop "for byte in s.bytes()" from outcome r on, s the bytes left: the
\* iterations for the first half of s, then those for the rest, the
\* outcome of each part bound as a value before the next one starts. A panic
\* ends the loop.
RECURSIVE write_string_from(_, _)
write_string_from(r, s) ==
    IF s = <<>> \/ r.panic
    THEN r
    ELSE IF Len(s) = 1
    THEN write_byte(r.writer, Filter(Head(s)))
    ELSE CHOOSE out \in {write_string_from(after, rest) :
                            after \in {write_string_from(r, SubSeq(s, 1, Len(s) \div 2))},
                            rest \in {SubSeq(s, (Len(s) \div 2) + 1, Len(s))}} : TRUE

write_string(w, s) == write_string_from(Outcome(w, FALSE), s)

\* fmt::Write::write_fmt on the Writer: one write_str (= write_string, always
\* Ok) per piece of the format string and per argument, in order.
RECURSIVE Writer_write_fmt(_, _)
Writer_write_fmt(r, pieces) ==
    IF pieces = <<>> \/ r.panic
    THEN r
    ELSE CHOOSE out \in {Writer_write_fmt(after, rest) :
                            after \in {write_string(r.writer, Head(pieces))},
                            rest \in {Tail(pieces)}} : TRUE

----------------------------------------------------------------------------
(* port_io *)

Success == 16

Failed == 17

\* lazy_static SERIAL1: the closure (SerialPort::new, init, Mutex::new) runs
\* on the first dereference only; this is the number of init() runs after a
\* dereference.
\* a SERIAL1 whose closure runs on every dereference
SERIAL1_deref_every_time(ready, inits) ==
    inits + 1

SERIAL1_deref(ready, inits) ==
    IF ready THEN inits ELSE inits + 1

\* print_out: SERIAL1.lock().write_fmt(args).expect(..) with write_fmt Ok:
\* the lock is taken (spin::Mutex: the caller spins while it is held), the
\* chunks are transmitted in order, the guard is dropped at the end of the
\* statement.
print_out(chunks) ==
    /\ ~SERIAL1_locked
    /\ serial_inits' = SERIAL1_deref(SERIAL1_ready, serial_inits)
    /\ SERIAL1_ready' = TRUE
    /\ serial' = serial \o chunks
    /\ SERIAL1_locked' = FALSE

\* exit_qemu writing the status QEMU's isa-debug-exit reports, (code << 1) | 1
exit_qemu_writes_status(exit_code) ==
    port' = Append(port, (exit_code * 2) + 1)

\* exit_qemu: one write of the code to port 0xf4. QemuExitCode is repr(u32),
\* so "exit_code as u32" is the discriminant itself.
exit_qemu(exit_code) ==
    port' = Append(port, exit_code)

----------------------------------------------------------------------------
(* the declared test procedures *)

TestString ==
    <<83, 111, 109, 101, 32, 116, 101, 115, 116, 32, 115, 116, 114, 105, 110,
      103, 32, 116, 104, 97, 116, 32, 102, 105, 116, 115, 32, 111, 110, 32,
      97, 32, 115, 105, 110, 103, 108, 101, 32, 108, 105, 110, 101>>

\* A statement of a test body: a print!/println! (the byte pieces its
\* format_args write), the read-back loop of it_can_println, a panic!, or a
\* print_out! (the chunks it writes).
Stmt(op, pieces, chunks) == [op |-> op, pieces |-> pieces, chunks |-> chunks]

\* vga_buffer::tests::it_can_println
it_can_println ==
    [name |-> "basicos::vga_buffer::tests::it_can_println",
     body |-> << Stmt("print", <<TestString, <<LF>>>>, <<>>),
                 Stmt("assert_row0", <<TestString>>, <<>>) >>]

\* further procedures a test list may declare
trivial_passes ==
    [name |-> "basicos::tests::trivial_passes", body |-> <<>>]

always_panics ==
    [name |-> "basicos::tests::always_panics",
     body |-> << Stmt("panic", <<>>, <<"explicit panic">>) >>]

prints_blank_line ==
    [name |-> "basicos::tests::prints_blank_line",
     body |-> << Stmt("print", << <<LF>> >>, <<>>) >>]

reports_progress ==
    [name |-> "basicos::tests::reports_progress",
     body |-> << Stmt("print_out", <<>>, <<"halfway", "\n">>) >>]

fills_screen ==
    [name |-> "basicos::tests::fills_screen",
     body |-> << Stmt("print", << [i \in 1..BUFFER_HEIGHT |-> LF] >>, <<>>),
                 Stmt("print", << <<88>> >>, <<>>) >>]

TestProcs ==
    {it_can_println, trivial_passes, always_panics, prints_blank_line,
     reports_progress, fills_screen}

TestLists ==
    UNION {[1..n -> TestProcs] : n \in 0..MaxTests}

----------------------------------------------------------------------------
(* test::test_runner, Testable::run, _start and the panic handler *)

CLEAR == "\\x1B[2J\\x1B[1;1H"

\* the match without its arm for 1
Plural_always_tests(n) == "tests"

Plural(n) == IF n = 1 THEN "test" ELSE "tests"

\* println_out!("Running {} {}", tests.len(), match ..): the pieces of
\* concat!("Running {} {}", "\n") and its two arguments
HeaderChunks(n) == <<"Running ", ToString(n), " ", Plural(n), "\n">>

NoCall == [op |-> "none", arg |-> <<>>, pre |-> WRITER_init, panic |-> FALSE]

Init ==
    /\ WRITER = WRITER_init
    /\ WRITER_locked = FALSE
    /\ SERIAL1_ready = FALSE
    /\ SERIAL1_locked = FALSE
    /\ serial_inits = 0
    /\ serial = <<>>
    /\ port = <<>>
    /\ pc = "start"
    /\ info = ""
    /\ tests \in TestLists
    /\ idx = 0
    /\ step = 0
    /\ calls = 0
    /\ last = NoCall

writerVars == <<WRITER, WRITER_locked, last>>

serialVars == <<SERIAL1_ready, SERIAL1_locked, serial_inits, serial>>

\* test_runner: print_out!("\x1B[2J\x1B[1;1H")
RunnerClear ==
    /\ pc = "start"
    /\ print_out(<<CLEAR>>)
    /\ pc' = "header"
    /\ UNCHANGED <<writerVars, port, info, tests, idx, step, calls>>

\* test_runner: println_out!("Running {} {}", ..)
RunnerHeader ==
    /\ pc = "header"
    /\ print_out(HeaderChunks(Len(tests)))
    /\ pc' = "loop"
    /\ UNCHANGED <<writerVars, port, info, tests, idx, step, calls>>

\* a run that clears the terminal again before every test name
RunName_clears ==
    /\ pc = "loop"
    /\ idx < Len(tests)
    /\ print_out(<<CLEAR, tests[idx + 1].name, "...\t">>)
    /\ pc' = "body"
    /\ step' = 1
    /\ UNCHANGED <<writerVars, port, info, tests, idx, calls>>

\* Testable::run: print_out!("{}...\t", type_name::<T>()), then self() starts
RunName ==
    /\ pc = "loop"
    /\ idx < Len(tests)
    /\ print_out(<<tests[idx + 1].name, "...\t">>)
    /\ pc' = "body"
    /\ step' = 1
    /\ UNCHANGED <<writerVars, port, info, tests, idx, calls>>

Body == tests[idx + 1].body

AtStmt(op) ==
    /\ pc = "body"
    /\ step <= Len(Body)
    /\ Body[step].op = op

OutOfBounds == "index out of bounds: the len is 25 but the index is 25"

\* _print: WRITER.lock().write_fmt(args).unwrap(); a panic inside leaves
\* the guard alive
TestPrint ==
    /\ AtStmt("print")
    /\ ~WRITER_locked
    /\ \E r \in {Writer_write_fmt(Outcome(WRITER, FALSE), Body[step].pieces)} :
           /\ WRITER' = r.writer
           /\ WRITER_locked' = r.panic
           /\ last' = [op |-> "print", arg |-> Body[step].pieces,
                       pre |-> WRITER, panic |-> r.panic]
           /\ IF r.panic
              THEN pc' = "panic" /\ info' = OutOfBounds /\ step' = step
              ELSE pc' = pc /\ info' = info /\ step' = step + 1
    /\ UNCHANGED <<serialVars, port, tests, idx, calls>>

\* it_can_println's read-back: what assert_eq! can do for string s. A cell the
\* program never stored holds what the hardware held: either outcome.
AssertOutcomes(chars, s) ==
    LET cells == {<<0, i - 1>> : i \in 1..Len(s)}
        differs == \E i \in 1..Len(s) :
                      /\ <<0, i - 1>> \in DOMAIN chars
                      /\ chars[<<0, i - 1>>].ascii_character # s[i]
    IN  IF differs THEN {"fail"}
        ELSE IF cells \subseteq DOMAIN chars THEN {"pass"}
        ELSE {"pass", "fail"}

\* for (i, c) in s.chars().enumerate() { WRITER.lock()..read(); assert_eq!(..) }
TestAssert ==
    /\ AtStmt("assert_row0")
    /\ ~WRITER_locked
    /\ \E o \in AssertOutcomes(WRITER.chars, Body[step].pieces[1]) :
          IF o = "pass"
          THEN pc' = pc /\ info' = info /\ step' = step + 1
          ELSE pc' = "panic" /\ info' = "assertion failed: left == right" /\ step' = step
    /\ UNCHANGED <<writerVars, serialVars, port, tests, idx, calls>>

\* panic!(..) in a test body
TestPanic ==
    /\ AtStmt("panic")
    /\ pc' = "panic"
    /\ info' = Body[step].chunks[1]
    /\ UNCHANGED <<writerVars, serialVars, port, tests, idx, step, calls>>

\* print_out!(..) in a test body
TestPrintOut ==
    /\ AtStmt("print_out")
    /\ print_out(Body[step].chunks)
    /\ step' = step + 1
    /\ UNCHANGED <<writerVars, port, pc, info, tests, idx, calls>>

\* a loop that steps over the test after the one that returned
RunOk_skips_next ==
    /\ pc = "body"
    /\ step > Len(Body)
    /\ print_out(<<"[ok]\n">>)
    /\ idx' = IF idx + 2 <= Len(tests) THEN idx + 2 ELSE idx + 1
    /\ pc' = "loop"
    /\ UNCHANGED <<writerVars, port, info, tests, step, calls>>

\* Testable::run: self() has returned; println_out!("[ok]"); next iteration
RunOk ==
    /\ pc = "body"
    /\ step > Len(Body)
    /\ print_out(<<"[ok]\n">>)
    /\ idx' = idx + 1
    /\ pc' = "loop"
    /\ UNCHANGED <<writerVars, port, info, tests, step, calls>>

\* exit_qemu(Success) reached before the loop is over
RunnerExit_early ==
    /\ pc = "loop"
    /\ exit_qemu(Success)
    /\ pc' = "idle"
    /\ UNCHANGED <<writerVars, serialVars, info, tests, idx, step, calls>>

\* test_runner: the loop is over; exit_qemu(Success); _start: loop {}
RunnerExit ==
    /\ pc = "loop"
    /\ idx = Len(tests)
    /\ exit_qemu(Success)
    /\ pc' = "idle"
    /\ UNCHANGED <<writerVars, serialVars, info, tests, idx, step, calls>>

\* panic: println_out!("[failed]\n")
PanicFailed ==
    /\ pc = "panic"
    /\ print_out(<<"[failed]\n\n">>)
    /\ pc' = "panic_error"
    /\ UNCHANGED <<writerVars, port, info, tests, idx, step, calls>>

\* panic: println_out!("Error: {}\n", info)
PanicError ==
    /\ pc = "panic_error"
    /\ print_out(<<"Error: ", info, "\n\n">>)
    /\ pc' = "panic_exit"
    /\ UNCHANGED <<writerVars, port, info, tests, idx, step, calls>>

\* a handler that returns to the test loop instead of idling
PanicExit_returns ==
    /\ pc = "panic_exit"
    /\ exit_qemu(Failed)
    /\ pc' = "loop"
    /\ idx' = idx + 1
    /\ UNCHANGED <<writerVars, serialVars, info, tests, step, calls>>

\* panic: exit_qemu(Failed); loop {}
PanicExit ==
    /\ pc = "panic_exit"
    /\ exit_qemu(Failed)
    /\ pc' = "panic_idle"
    /\ UNCHANGED <<writerVars, serialVars, info, tests, idx, step, calls>>

Panic == PanicFailed \/ PanicError \/ PanicExit

Next ==
    \/ RunnerClear
    \/ RunnerHeader
    \/ RunName
    \/ TestPrint
    \/ TestAssert
    \/ TestPanic
    \/ TestPrintOut
    \/ RunOk
    \/ RunnerExit
    \/ Panic

Spec == Init /\ [][Next]_vars

\* The processor keeps executing: a step that can be taken is taken.
LiveSpec == Spec /\ WF_vars(Next)

----------------------------------------------------------------------------
(* A serial write that fails. uart_16550's write_str returns Ok, so Spec   *)
(* has no such step; FaultSpec adds it: write_fmt returns Err after some   *)
(* of the chunks, and expect() panics inside the statement, where the      *)
(* MutexGuard of SERIAL1 is still alive.                                   *)

\* the chunks of the print_out! the context is about to execute (<<>> if its
\* next statement is not one)
PendingPrintOut ==
    CASE pc = "start"  -> <<CLEAR>>
      [] pc = "header" -> HeaderChunks(Len(tests))
      [] pc = "loop" /\ idx < Len(tests) -> <<tests[idx + 1].name, "...\t">>
      [] pc = "body" /\ step > Len(Body) -> <<"[ok]\n">>
      [] AtStmt("print_out") -> Body[step].chunks
      [] pc = "panic" -> <<"[failed]\n\n">>
      [] pc = "panic_error" -> <<"Error: ", info, "\n\n">>
      [] OTHER -> <<>>

SerialFailed == "Printing to serial failed: Error"

SerialWriteFails ==
    /\ PendingPrintOut # <<>>
    /\ ~SERIAL1_locked
    /\ serial_inits' = SERIAL1_deref(SERIAL1_ready, serial_inits)
    /\ SERIAL1_ready' = TRUE
    /\ \E k \in 0..(Len(PendingPrintOut) - 1) :
          serial' = serial \o SubSeq(PendingPrintOut, 1, k)
    /\ SERIAL1_locked' = TRUE
    /\ pc' = "panic"
    /\ info' = SerialFailed
    /\ UNCHANGED <<writerVars, port, tests, idx, step, calls>>

FaultNext == Next \/ SerialWriteFails

FaultSpec == Init /\ [][FaultNext]_vars

----------------------------------------------------------------------------
(* Any caller of the Writer: WRITER.lock().write_byte(b) and               *)
(* WRITER.lock().write_string(s), in any order, from the initial Writer.   *)

ByteSamples == {0, LF, 31, 32, 126, 127, PLACEHOLDER}

FullRow == [i \in 1..BUFFER_WIDTH |-> 65 + (i % 26)]

AlmostAllLines == [i \in 1..(BUFFER_HEIGHT - 1) |-> LF]

\* "é" in UTF-8
TwoByteChar == <<195, 169>>

StrSamples ==
    {<<b>> : b \in ByteSamples}
        \cup {TestString \o <<LF>>, FullRow, AlmostAllLines, TwoByteChar}

WriterInit ==
    /\ WRITER = WRITER_init
    /\ WRITER_locked = FALSE
    /\ SERIAL1_ready = FALSE
    /\ SERIAL1_locked = FALSE
    /\ serial_inits = 0
    /\ serial = <<>>
    /\ port = <<>>
    /\ pc = "calls"
    /\ info = ""
    /\ tests = <<>>
    /\ idx = 0
    /\ step = 0
    /\ calls = 0
    /\ last = NoCall

\* the caller's statement WRITER.lock().<method>(arg), r its outcome
WriterCall(op, arg, r) ==
    /\ pc = "calls"
    /\ calls < MaxCalls
    /\ ~WRITER_locked
    /\ WRITER' = r.writer
    /\ WRITER_locked' = r.panic
    /\ last' = [op |-> op, arg |-> arg, pre |-> WRITER, panic |-> r.panic]
    /\ calls' = calls + 1
    /\ IF r.panic
       THEN pc' = "panic" /\ info' = OutOfBounds
       ELSE pc' = pc /\ info' = info
    /\ UNCHANGED <<serialVars, port, tests, idx, step>>

CallWriteByte(b) == WriterCall("write_byte", <<b>>, write_byte(WRITER, b))

CallWriteString(s) == WriterCall("write_string", s, write_string(WRITER, s))

WriterNext ==
    \/ \E b \in ByteSamples : CallWriteByte(b)
    \/ \E s \in StrSamples : CallWriteString(s)
    \/ Panic

WriterSpec == WriterInit /\ [][WriterNext]_vars

\* the panic handler runs to its loop {}: nothing else runs beside it
WriterLiveSpec == WriterSpec /\ WF_vars(Panic)

----------------------------------------------------------------------------
(* Properties of the Writer (checked under WriterSpec) *)

\* the last call was a Writer call of one byte b: write_byte(b) or
\* write_string of the one-byte string b
OneByteCall == last.op \in {"write_byte", "write_string"} /\ Len(last.arg) = 1

\* the cursor cell before the last call
CursorCell == <<last.pre.row_position, last.pre.column_position>>

\* the cell a store of the last call goes to: the cursor cell, or column 0 of
\* the next row when the column had reached the grid width
TargetCell ==
    IF last.pre.column_position >= BUFFER_WIDTH
    THEN <<last.pre.row_position + 1, 0>>
    ELSE CursorCell

TargetInGrid == InGrid(TargetCell[1], TargetCell[2])

Holds(cell, byte) ==
    /\ cell \in DOMAIN WRITER.chars
    /\ WRITER.chars[cell].ascii_character = byte

\* C1 as claimed: write_byte(b) stores b at the then-current cursor cell when
\* b is printable ASCII or a line-feed, and stores the placeholder 0xFE for
\* every other byte value.
C1_WriteByteAsClaimed ==
    (last.op = "write_byte" /\ ~last.panic) =>
        Holds(CursorCell,
              IF IsPrintable(last.arg[1]) \/ last.arg[1] = LF
              THEN last.arg[1] ELSE PLACEHOLDER)

\* C1 amended: with the store inside the grid, write_byte(b) stores every
\* byte b other than a line-feed unchanged (no substitution) at the cursor
\* cell, which is column 0 of the next row when the column had reached 80;
\* write_string stores a printable byte unchanged and the placeholder 0xFE
\* for every other byte that is not a line-feed, at that same cell; a
\* line-feed stores nothing through either; with the store outside the grid
\* the call panics and stores nothing.
C1_StoredByte ==
    OneByteCall =>
        LET b == last.arg[1]
        IN  IF b = LF
            THEN WRITER.chars = last.pre.chars /\ ~last.panic
            ELSE IF ~TargetInGrid
            THEN WRITER.chars = last.pre.chars /\ last.panic
            ELSE IF last.op = "write_byte"
            THEN Holds(TargetCell, b) /\ ~last.panic
            ELSE Holds(TargetCell, IF IsPrintable(b) THEN b ELSE PLACEHOLDER)
                    /\ ~last.panic

\* write_byte has stored a byte outside printable ASCII as it is
C1_Witness ==
    /\ last.op = "write_byte"
    /\ last.arg[1] \notin {LF, PLACEHOLDER}
    /\ ~IsPrintable(last.arg[1])
    /\ Holds(TargetCell, last.arg[1])

\* the printable characters of a write_string argument that ends in at most
\* one line-feed and has no other byte outside printable ASCII
Line(s) ==
    IF s # <<>> /\ s[Len(s)] = LF THEN SubSeq(s, 1, Len(s) - 1) ELSE s

\* C2: from the initial Writer, write_string(S) for a printable string S of
\* at most 80 bytes, also when followed by a line-feed, leaves the bytes of
\* S in cells (0,0)..(0,len(S)-1), in order.
C2_RowZeroHoldsString ==
    (/\ last.op = "write_string"
     /\ last.pre = WRITER_init
     /\ Len(Line(last.arg)) <= BUFFER_WIDTH
     /\ \A i \in 1..Len(Line(last.arg)) : IsPrintable(Line(last.arg)[i]))
        => /\ ~last.panic
           /\ \A i \in 1..Len(Line(last.arg)) :
                 Holds(<<0, i - 1>>, Line(last.arg)[i])

\* a full row of 80 printable characters was written from the initial Writer
C2_Witness ==
    /\ last.op = "write_string"
    /\ last.pre = WRITER_init
    /\ Len(last.arg) = BUFFER_WIDTH
    /\ \A i \in 1..Len(last.arg) : IsPrintable(last.arg[i])
    /\ WRITER.column_position = BUFFER_WIDTH

\* the cells of row r are what they were before the last call
RowUntouched(r) ==
    \A c \in 0..(BUFFER_WIDTH - 1) :
        /\ (<<r, c>> \in DOMAIN WRITER.chars) = (<<r, c>> \in DOMAIN last.pre.chars)
        /\ <<r, c>> \in DOMAIN WRITER.chars =>
              WRITER.chars[<<r, c>>] = last.pre.chars[<<r, c>>]

\* the byte a one-byte call hands to the store
Handed ==
    IF last.op = "write_string" /\ ~IsPrintable(last.arg[1])
    THEN PLACEHOLDER ELSE last.arg[1]

AtFullRow ==
    /\ OneByteCall
    /\ last.arg[1] # LF
    /\ last.pre.column_position = BUFFER_WIDTH

C4_LineFeed ==
    (OneByteCall /\ last.arg[1] = LF) =>
        /\ WRITER.row_position = last.pre.row_position + 1
        /\ WRITER.column_position = 0
        /\ WRITER.chars = last.pre.chars
        /\ WRITER.color_code = last.pre.color_code
        /\ ~last.panic

\* a line-feed was written with the column at the grid width
C4_Witness ==
    /\ OneByteCall
    /\ last.arg[1] = LF
    /\ last.pre.column_position = BUFFER_WIDTH
    /\ WRITER.column_position = 0

----------------------------------------------------------------------------
(* Properties of a test run (Spec, LiveSpec, FaultSpec) *)

Range(f) == {f[i] : i \in DOMAIN f}

\* what the first n statements of a test body write to the serial port
RECURSIVE BodyOutput(_, _)
BodyOutput(body, n) ==
    IF n = 0 THEN <<>>
    ELSE BodyOutput(body, n - 1)
            \o (IF body[n].op = "print_out" THEN body[n].chunks ELSE <<>>)

\* the report of tests that all returned normally
RECURSIVE Report(_)
Report(ts) ==
    IF ts = <<>> THEN <<>>
    ELSE <<Head(ts).name, "...\t">>
            \o BodyOutput(Head(ts).body, Len(Head(ts).body))
            \o <<"[ok]\n">>
            \o Report(Tail(ts))

Heading == <<CLEAR>> \o HeaderChunks(Len(tests))

\* C5: with all tests returning normally the serial output is the header,
\* then per test, in declaration order, its name, the in-progress marker and
\* "[ok]" with a line-feed (at the head of each iteration the tests before
\* it, and only they, are reported); Success is written only after the last
\* "[ok]".
C5_PassingRunReport ==
    /\ pc = "loop" => serial = Heading \o Report(SubSeq(tests, 1, idx))
    /\ Success \in Range(port) => serial = Heading \o Report(tests)

\* Success was written after two different tests
C5_Witness ==
    /\ port = <<Success>>
    /\ Len(tests) >= 2
    /\ tests[1] # tests[2]

\* the serial output of a run whose test idx+1 panicked at statement step
FailureReport ==
    Heading
        \o Report(SubSeq(tests, 1, idx))
        \o <<tests[idx + 1].name, "...\t">>
        \o BodyOutput(tests[idx + 1].body, step - 1)
        \o <<"[failed]\n\n", "Error: ", info, "\n\n">>

\* C6: a test that panics leads to "[failed]", the description, the Failed
\* code and the idle loop, in this order; the test gets no "[ok]", no later
\* test is started, and Success is never written.
C6_FailureAborts ==
    /\ [](pc = "panic" => Success \notin Range(port) /\ idx < Len(tests))
    /\ (pc = "panic") ~> (pc = "panic_idle")
    /\ [](Failed \in Range(port) =>
            /\ pc = "panic_idle"
            /\ port = <<Failed>>
            /\ serial = FailureReport)
    /\ [][pc # "panic_idle"]_vars

\* a test has failed with later tests declared, and Failed was written
C6_Witness ==
    /\ pc = "panic_idle"
    /\ port = <<Failed>>
    /\ idx + 1 < Len(tests)

\* C7 as claimed: after a failed serial write the run goes on until
\* "[failed]" is reported and the Failed code is written.
C7_WriteFailureReported ==
    info = SerialFailed =>
        \/ (Failed \in Range(port) /\ "[failed]\n\n" \in Range(serial))
        \/ ENABLED FaultNext

\* C8: Success is written only with every declared test executed and
\* returned normally, each with its "[ok]" (directly after the header when
\* no test is declared), never with a test pending or after a failure.
C8_SuccessOnlyAfterAll ==
    /\ Success \in Range(port) =>
          /\ idx = Len(tests)
          /\ pc = "idle"
          /\ info = ""
          /\ port = <<Success>>
          /\ Cardinality({i \in DOMAIN serial : serial[i] = "[ok]\n"}) = Len(tests)
          /\ Len(tests) = 0 => serial = Heading
    /\ pc \in {"body", "panic", "panic_error", "panic_exit", "panic_idle"} =>
          Success \notin Range(port)

\* Success was written after three tests
C8_Witness ==
    /\ port = <<Success>>
    /\ Len(tests) >= 3
    /\ idx = Len(tests)

\* C9: the header holds the test count followed by "test" exactly when the
\* count is 1, and by "tests" for every other count.
C9_HeaderPlural ==
    pc \notin {"start", "header"} =>
        /\ Len(serial) >= 6
        /\ serial[2] = "Running "
        /\ serial[3] = ToString(Len(tests))
        /\ serial[4] = " "
        /\ serial[5] = (IF Len(tests) = 1 THEN "test" ELSE "tests")
        /\ serial[6] = "\n"

\* the header of a run of one test was printed
C9_Witness ==
    /\ pc = "loop"
    /\ Len(tests) = 1
    /\ SubSeq(serial, 3, 5) = <<"1", " ", "test">>

\* C10: the serial device is initialized exactly once, at the first use of
\* the channel and not before; no chunk is transmitted before it, and later
\* uses (the harness, tests, the panic handler) do not run init again.
C10_SerialInitOnce ==
    /\ serial_inits <= 1
    /\ serial # <<>> => serial_inits = 1
    /\ SERIAL1_ready <=> serial_inits = 1
    /\ pc = "start" <=> serial_inits = 0

\* the harness, a test and the panic handler have all printed
C10_Witness ==
    /\ serial_inits = 1
    /\ pc = "panic_idle"
    /\ "halfway" \in Range(serial)
    /\ "[failed]\n\n" \in Range(serial)

----------------------------------------------------------------------------
(* Exit codes, placeholder rendering, locks, cursor bounds, frame *)

\* C11: Success is written to the control port as 0x10 and Failed as 0x11,
\* two different values, and no other value is ever written to it.
C11_ExitCodes ==
    /\ Range(port) \subseteq {16, 17}
    /\ pc = "idle" => port = <<16>>
    /\ pc = "panic_idle" => port = <<17>>

\* a failed run has written 0x11
C11_Witness ==
    /\ pc = "panic_idle"
    /\ port = <<17>>
    /\ info # ""

\* the cell the i-th byte of a write_string argument without line-feeds goes
\* to: the cells from the cursor on, row after row
CellOf(i) ==
    LET k == last.pre.column_position + (i - 1)
    IN  <<last.pre.row_position + (k \div BUFFER_WIDTH), k % BUFFER_WIDTH>>

StringCall ==
    /\ last.op = "write_string"
    /\ last.arg # <<>>
    /\ LF \notin Range(last.arg)

\* C12: write_string renders each byte that is neither printable ASCII nor a
\* line-feed as one cell holding 0xFE (k cells for a k-byte character), the
\* cursor advancing one column per byte, and goes on to the next byte
\* without a panic.
C12_PlaceholderPerByte ==
    StringCall =>
        /\ ~last.panic
        /\ \A i \in 1..Len(last.arg) :
              ~IsPrintable(last.arg[i]) => Holds(CellOf(i), PLACEHOLDER)
        /\ WRITER.row_position = CellOf(Len(last.arg))[1]
        /\ WRITER.column_position = CellOf(Len(last.arg))[2] + 1

\* the context is about to take the lock of SERIAL1 (a print_out!) or of
\* WRITER (a print!, or the read-back of it_can_println)
WantsSerial == PendingPrintOut # <<>>

WantsWriter == AtStmt("print") \/ AtStmt("assert_row0")

\* C13: whenever the context tries to take the Writer lock or the serial
\* lock, the panic handler included, the lock is free; nothing but the two
\* idle loops stops the run, and an idle loop is reached only with an exit
\* code written.
C13_NeverBlocks ==
    /\ WantsSerial => ~SERIAL1_locked
    /\ WantsWriter => ~WRITER_locked
    /\ pc \notin {"idle", "panic_idle"} => ENABLED FaultNext
    /\ pc \in {"idle", "panic_idle"} => Len(port) = 1

\* C14: the row stays inside the grid: 0 <= row < 25.
C14_RowInGrid ==
    /\ WRITER.row_position >= 0
    /\ WRITER.row_position < BUFFER_HEIGHT

WriterCalled == last.op \in {"write_byte", "write_string"}

\* C15: 0 <= column <= 80 in every Writer state; column = 80 only directly
\* after the 80th character of the row was stored (the row is full, the call
\* that stored its last cell is the last one and did not end in a line-feed);
\* every store uses a column below 80: stored cells have one, and a failed
\* store was not failed by its column.
C15_ColumnBounds ==
    /\ WRITER.column_position >= 0
    /\ WRITER.column_position <= BUFFER_WIDTH
    /\ \A p \in DOMAIN WRITER.chars : p[2] >= 0 /\ p[2] < BUFFER_WIDTH
    /\ last.panic => WRITER.column_position < BUFFER_WIDTH
    /\ WRITER.column_position = BUFFER_WIDTH =>
          /\ WriterCalled
          /\ ~last.panic
          /\ last.arg[Len(last.arg)] # LF
          /\ \A c \in 0..(BUFFER_WIDTH - 1) :
                <<WRITER.row_position, c>> \in DOMAIN WRITER.chars
          /\ <<WRITER.row_position, BUFFER_WIDTH - 1>> \notin DOMAIN last.pre.chars
          /\ \A p \in DOMAIN WRITER.chars : p[1] <= WRITER.row_position

\* a row below the first has just been filled
C15_Witness ==
    /\ WRITER.column_position = BUFFER_WIDTH
    /\ WRITER.row_position >= 1
    /\ WriterCalled

\* C16: the clear-screen + home-cursor sequence is the first thing a run
\* sends to the serial port, before the header and every test name, byte for
\* byte as the literal in test_runner, and nothing sent later is that
\* sequence again.
C16_ClearOnceFirst ==
    /\ pc = "start" => serial = <<>>
    /\ pc # "start" =>
          /\ serial # <<>>
          /\ serial[1] = "\\x1B[2J\\x1B[1;1H"
    /\ \A i \in 2..Len(serial) : serial[i] # CLEAR

\* a run of two tests or more is over
C16_Witness ==
    /\ pc = "idle"
    /\ Len(tests) >= 2
    /\ serial[1] = CLEAR
    /\ Len(serial) > 6

\* C17: at most one value is ever written to the exit port, and once one is
\* written the program is in one of its two idle loops.
C17_OneExitWrite ==
    /\ Len(port) <= 1
    /\ port # <<>> => pc \in {"idle", "panic_idle"}

\* a failed run with tests left to run has written one value
C17_Witness ==
    /\ pc = "panic_idle"
    /\ Len(port) = 1
    /\ idx + 1 < Len(tests)

InHandler == pc \in {"panic", "panic_error", "panic_exit", "panic_idle"}

\* the last call was write_byte of a byte other than a line-feed with the
\* row at or past the grid height
PastLastRow ==
    /\ last.op = "write_byte"
    /\ last.arg[1] # LF
    /\ last.pre.row_position >= BUFFER_HEIGHT

C18_NoStoreOutside ==
    /\ \A p \in DOMAIN WRITER.chars : InGrid(p[1], p[2])
    /\ PastLastRow =>
          /\ last.panic
          /\ WRITER.chars = last.pre.chars
    /\ last.panic =>
          /\ InHandler
          /\ info = OutOfBounds
    /\ (last.panic /\ pc = "panic_idle") =>
          /\ port = <<Failed>>
          /\ serial = <<"[failed]\n\n", "Error: ", OutOfBounds, "\n\n">>

\* C18: no cell outside the 25x80 grid is ever stored; with the row at 25 or
\* more, write_byte of a byte other than a line-feed stores nothing and
\* panics on the index, and the panic handler then reports on the serial
\* port, writes Failed to the exit port and idles.
C18_PanicInsteadOfStore ==
    /\ []C18_NoStoreOutside
    /\ last.panic ~> (pc = "panic_idle" /\ port = <<Failed>>)

\* write_byte at row 25 has panicked and the handler has finished
C18_Witness ==
    /\ PastLastRow
    /\ last.pre.row_position = BUFFER_HEIGHT
    /\ pc = "panic_idle"
    /\ port = <<Failed>>

\* the cells stored before the last call are all still there, unchanged,
\* except the one named
OthersKept(cell) ==
    \A p \in (DOMAIN last.pre.chars) \ {cell} :
        /\ p \in DOMAIN WRITER.chars
        /\ WRITER.chars[p] = last.pre.chars[p]

\* C19: write_byte of a byte other than a line-feed changes exactly one cell,
\* the one at the cursor after any implicit wrap, and leaves every other cell
\* and the color unchanged; no call modifies a cell written earlier except
\* by a store to the same cell, the row never decreases and no cell of a
\* row above the cursor's is rewritten.
C19_OneCellChanges ==
    /\ (last.op = "write_byte" /\ last.arg[1] # LF) =>
          /\ Holds(TargetCell, last.arg[1])
          /\ DOMAIN WRITER.chars = (DOMAIN last.pre.chars) \cup {TargetCell}
          /\ OthersKept(TargetCell)
          /\ WRITER.color_code = last.pre.color_code
    /\ WRITER.row_position >= last.pre.row_position
    /\ \A p \in DOMAIN last.pre.chars :
          p[1] < last.pre.row_position =>
              /\ p \in DOMAIN WRITER.chars
              /\ WRITER.chars[p] = last.pre.chars[p]

====
